---- MODULE Spec2Model ----
(***************************************************************************)
(* Chapter localization engine of audiobook-timestamp-extractor.           *)
(*                                                                         *)
(* The model covers AudioAnalyzer.find_chapter_linear (one action per loop *)
(* iteration outcome), the primary pass of main.py and app.py, and the Gap *)
(* Recovery pass of find_missing.py.                                       *)
(*                                                                         *)
(* Times are seconds.  The code computes them as floats by addition,       *)
(* subtraction, min and comparison only; the model uses integers, on which *)
(* these operations are exact.  A score is kept in tenths of a point       *)
(* (0.7*p + 0.3*s is modelled as 7*p + 3*s), so that it stays an integer.  *)
(* Python's None is the value None below; every real time is >= 0.         *)
(***************************************************************************)
EXTENDS Integers, Sequences, FiniteSets, TLC

\* ---------------------------------------------------------------- bounds
NumChapters == 3
MaxSegs == 2
MaxParts == 2
MaxLines == 3
MaxEntries == 2

\* ------------------------------------------------------ program constants
None == -1
chunk_duration == 240
overlap == 120
MinChunk == 2
DefaultMinConfidence == 90
default_search_window == 2700
Buffer == 5
MinGap == 10

\* ----------------------------------------------------- input value sets
\* get_duration(): 0 is the value returned when the probe fails
Durations == {0, 121, 700}
\* app.py sliders: confidence 0..100, initial search window 10..60 minutes
SliderConfidence == {0, 80}
SliderWindows == {600}
\* start_time values stored in an existing chapter_timestamps.json
ExistTimes == {100, 110, 500}
\* fuzz.partial_ratio / fuzz.ratio results and segment['start'] values
Ratios == {0, 50, 100}
Offsets == {0, 5, 200}

Modes == {"cli", "app", "gap"}
ChapterIds == 1..NumChapters
\* the ids excluded at verification (Gap Recovery has no verification):
\* none, any single chapter, or all of them
IgnoreSets == {{}} \cup {{c} : c \in ChapterIds} \cup {ChapterIds}

Min(a, b) == IF a < b THEN a ELSE b

\* A transcription segment: text (empty after strip or not), the two fuzzy
\* ratios of a non-empty text against the search phrase, and its start offset
\* within the chunk.  The prefix is one of the alignments partial_ratio
\* considers, so the prefix ratio never exceeds the partial ratio.
Segment ==
    {[empty |-> TRUE, p_ratio |-> 0, s_ratio |-> 0, start |-> o] : o \in Offsets}
    \cup
    {[empty |-> FALSE, p_ratio |-> p, s_ratio |-> s, start |-> o] :
        p \in Ratios, s \in Ratios, o \in Offsets}

Segments == {sg \in Segment : sg.s_ratio <= sg.p_ratio}

SegSeqs == UNION {[1..n -> Segments] : n \in 0..MaxSegs}

VARIABLES
    mode,                   \* which program drives the scanner
    min_confidence,         \* threshold passed to find_chapter_linear
    search_window,          \* default budget of the primary pass
    total_duration,         \* result of get_duration()
    existing_map,           \* load_existing_timestamps(): chapter -> time or None
    ignore_ids,             \* chapters the user excluded at verification
    chapters,               \* chapter -> [status, confirmed_time]
    pc,                     \* position of the driver
    i,                      \* loop index of the driver (1-based)
    last_confirmed_time,    \* anchor of the primary pass
    current_search_window,  \* budget of the primary pass
    start_search_time, max_search_duration, current_time, search_limit,
    found,                  \* return value of the last find_chapter_linear
    use_mlx, model_loaded, load_count,   \* AudioAnalyzer backend state
    temp_exists,            \* temp_scan.wav exists
    saved,                  \* the result set was written
    calls,                  \* history: one record per find_chapter_linear call
    windows,                \* history: windows extracted by the current call
    scored,                 \* history: windows scored by the current call
    last_best,              \* history: the last scored window's best segment
    fn_in,                  \* a function checked in isolation: its inputs
    fn_out                  \* and its results (empty until it has run)

config == <<mode, min_confidence, search_window, total_duration, existing_map,
            ignore_ids>>
driver == <<i, last_confirmed_time, current_search_window>>
scan == <<start_search_time, max_search_duration, current_time, search_limit>>
backend == <<use_mlx, model_loaded, load_count>>
hist == <<calls, windows, scored, last_best>>
pure == <<fn_in, fn_out>>
vars == <<config, chapters, pc, driver, scan, found, backend, temp_exists, saved, hist,
          pure>>

NoBest == [any |-> FALSE, score |-> 0, off |-> 0]
NoInput == [segs |-> <<>>, ct |-> 0, conf |-> 0]

Init ==
    /\ mode \in Modes
    /\ min_confidence \in (IF mode = "app" THEN SliderConfidence ELSE {DefaultMinConfidence})
    /\ search_window \in (IF mode = "app" THEN SliderWindows
                          ELSE IF mode = "cli" THEN {default_search_window} ELSE {0})
    /\ total_duration \in Durations
    /\ existing_map \in (IF mode = "gap" THEN [ChapterIds -> ExistTimes \cup {None}]
                         ELSE {[c \in ChapterIds |-> None]})
    /\ ignore_ids \in (IF mode = "gap" THEN {{}} ELSE IgnoreSets)
    /\ chapters = [c \in ChapterIds |-> [status |-> "PENDING", confirmed_time |-> None]]
    /\ pc = "start"
    /\ i = 1
    /\ last_confirmed_time = 0
    /\ current_search_window = search_window
    /\ start_search_time = 0
    /\ max_search_duration = 0
    /\ current_time = 0
    /\ search_limit = 0
    /\ found = FALSE
    /\ use_mlx \in BOOLEAN
    /\ model_loaded = FALSE
    /\ load_count = 0
    /\ temp_exists = FALSE
    /\ saved = FALSE
    /\ calls = <<>>
    /\ windows = <<>>
    /\ scored = <<>>
    /\ last_best = NoBest
    /\ fn_in = NoInput
    /\ fn_out = <<>>

\* ------------------------------------------------ find_chapter_linear
\* faulty variant: the two weights are exchanged
FinalScoreSwapped(p, s) == 3 * p + 7 * s

\* final_score = (0.7 * p_ratio) + (0.3 * s_ratio), in tenths of a point
FinalScore(p, s) == 7 * p + 3 * s

\* faulty variant: the chunk's own start is not added to the segment's offset
BestSegmentTimeRel(ct, start) == start

\* best_segment_time = current_time + segment['start']
BestSegmentTime(ct, start) == ct + start

\* faulty variant: the segment loop without the skip of empty texts
RECURSIVE ScoreSegmentsNoSkip(_, _, _)
ScoreSegmentsNoSkip(segs, k, acc) ==
    IF k > Len(segs) THEN acc
    ELSE LET sg == segs[k]
             final_score == 7 * sg.p_ratio + 3 * sg.s_ratio
         IN IF final_score > acc.best_ratio
            THEN ScoreSegmentsNoSkip(segs, k + 1,
                    [best_ratio |-> final_score, best_start |-> sg.start])
            ELSE ScoreSegmentsNoSkip(segs, k + 1, acc)

\* faulty variant: a segment also replaces the best one on an equal score
RECURSIVE ScoreSegmentsLastTie(_, _, _)
ScoreSegmentsLastTie(segs, k, acc) ==
    IF k > Len(segs) THEN acc
    ELSE LET sg == segs[k]
             final_score == 7 * sg.p_ratio + 3 * sg.s_ratio
         IN IF sg.empty THEN ScoreSegmentsLastTie(segs, k + 1, acc)
            ELSE IF final_score >= acc.best_ratio
                 THEN ScoreSegmentsLastTie(segs, k + 1,
                        [best_ratio |-> final_score, best_start |-> sg.start])
                 ELSE ScoreSegmentsLastTie(segs, k + 1, acc)

\* The segment loop of one chunk: empty texts are skipped, a segment replaces
\* the best one only when its score is strictly higher; best_ratio starts at 0
\* and best_segment_time at None.  best_start is the start of the segment
\* whose time the loop keeps (None while it keeps none).
RECURSIVE ScoreSegments(_, _, _)
ScoreSegments(segs, k, acc) ==
    IF k > Len(segs) THEN acc
    ELSE LET sg == segs[k]
             final_score == FinalScore(sg.p_ratio, sg.s_ratio)
         IN IF sg.empty THEN ScoreSegments(segs, k + 1, acc)
            ELSE IF final_score > acc.best_ratio
                 THEN ScoreSegments(segs, k + 1,
                        [best_ratio |-> final_score, best_start |-> sg.start])
                 ELSE ScoreSegments(segs, k + 1, acc)

BestInChunk(segs) ==
    ScoreSegments(segs, 1, [best_ratio |-> 0, best_start |-> None])

\* if best_ratio >= min_confidence
MeetsConfidence(best_ratio, conf) == best_ratio >= 10 * conf

\* while current_time < search_limit
LoopGuard == current_time < search_limit

\* faulty variant: the chunk is not cut at the end of the audio
EndTimeUnclipped == current_time + chunk_duration

\* end_time = min(current_time + chunk_duration, total_duration)
EndTime == Min(current_time + chunk_duration, total_duration)

ActualDuration == EndTime - current_time

\* faulty variant: the scan does not advance
NextWindowStartStuck(ct) == ct

\* faulty variant: the scan advances by a whole chunk
NextWindowStartNoOverlap(ct) == ct + chunk_duration

\* current_time += (chunk_duration - overlap)
NextWindowStart(ct) == ct + (chunk_duration - overlap)

\* faulty variant: the scan ends without writing the failure
ExhaustedStatusKept == "PENDING"

\* the status written after the loop ends without a match
ExhaustedStatus == "FAILED"

\* the chapter whose scan is running or has just returned
CurChap == calls[Len(calls)].chap

SetResult(r) == [calls EXCEPT ![Len(calls)].result = r]

\* faulty variant: the standard model is loaded again on every window that
\* uses it
BackendAfterReload(mlx_ok) ==
    LET mlx == use_mlx /\ mlx_ok
        std == ~mlx
    IN [use_mlx |-> mlx,
        model_loaded |-> model_loaded \/ std,
        load_count |-> IF std THEN load_count + 1 ELSE load_count,
        std |-> std]

\* Transcription of the extracted chunk.  mlx_ok: the accelerated call
\* succeeds; the standard backend is used when use_mlx is (or has just become)
\* false, and its model is loaded on first use.
BackendAfter(mlx_ok) ==
    LET mlx == use_mlx /\ mlx_ok
        std == ~mlx
    IN [use_mlx |-> mlx,
        model_loaded |-> model_loaded \/ std,
        load_count |-> IF std /\ ~model_loaded THEN load_count + 1 ELSE load_count,
        std |-> std]

\* The highest-scoring non-empty segment of a chunk and the offset of the
\* first segment that reaches that score (history only).
NonEmpty(segs) == {k \in 1..Len(segs) : ~segs[k].empty}

TopScore(segs) ==
    LET S == {FinalScore(segs[k].p_ratio, segs[k].s_ratio) : k \in NonEmpty(segs)}
    IN CHOOSE m \in S : \A x \in S : x <= m

TopOf(segs) ==
    IF NonEmpty(segs) = {} THEN NoBest
    ELSE LET top == TopScore(segs)
             first == CHOOSE k \in NonEmpty(segs) :
                        /\ FinalScore(segs[k].p_ratio, segs[k].s_ratio) = top
                        /\ \A j \in NonEmpty(segs) :
                             FinalScore(segs[j].p_ratio, segs[j].s_ratio) = top => k <= j
         IN [any |-> TRUE, score |-> top, off |-> segs[first].start]

MaxStart(segs) ==
    IF Len(segs) = 0 THEN 0
    ELSE CHOOSE m \in {segs[k].start : k \in 1..Len(segs)} :
            \A k \in 1..Len(segs) : segs[k].start <= m

\* What one transcription result contributes to the scan: the outcome of the
\* segment loop, the latest segment start, and the history summary.
Transcripts ==
    {[best |-> BestInChunk(segs), max_start |-> MaxStart(segs), top |-> TopOf(segs)] :
        segs \in SegSeqs}

\* Entry of find_chapter_linear(chapter, start, budget), lines 76-88.
EnterScan(c, start, budget) ==
    /\ start_search_time' = start
    /\ max_search_duration' = budget
    /\ current_time' = start
    /\ search_limit' = Min(total_duration, start + budget)
    /\ calls' = Append(calls, [chap |-> c, start |-> start, budget |-> budget,
                               result |-> "running"])
    /\ windows' = <<>>
    /\ scored' = <<>>
    /\ last_best' = NoBest
    /\ pc' = "scan"

\* The loop ends without a match (guard false, or a chunk shorter than 2 s):
\* cleanup, status FAILED, return False.  Lines 89-96, 198-204.
ScanExhausted ==
    /\ pc = "scan"
    /\ ~LoopGuard \/ ActualDuration < MinChunk
    /\ temp_exists' = FALSE
    /\ chapters' = [chapters EXCEPT ![CurChap].status = ExhaustedStatus]
    /\ found' = FALSE
    /\ pc' = "ret"
    /\ calls' = SetResult("exhausted")
    /\ UNCHANGED <<pure, config, driver, scan, backend, saved, windows, scored, last_best>>

\* ffmpeg fails on the chunk: return False at once.  Lines 114-118.  Neither
\* the status nor the temporary file is touched by the code; ffmpeg itself may
\* have created the file before failing.
ExtractFail ==
    /\ pc = "scan"
    /\ LoopGuard /\ ActualDuration >= MinChunk
    /\ temp_exists' \in {temp_exists, TRUE}
    /\ found' = FALSE
    /\ pc' = "ret"
    /\ calls' = SetResult("extract_fail")
    /\ UNCHANGED <<pure, config, chapters, driver, scan, backend, saved, windows, scored,
                   last_best>>

\* The chunk is extracted and the standard backend's transcribe (or the model
\* load before it) raises: nothing in find_chapter_linear catches it.
\* Lines 140-142.
TranscribeRaises ==
    /\ pc = "scan"
    /\ LoopGuard /\ ActualDuration >= MinChunk
    /\ \E mlx_ok \in (IF use_mlx THEN BOOLEAN ELSE {FALSE}), loaded \in BOOLEAN :
        LET b == BackendAfter(mlx_ok) IN
        /\ b.std
        /\ loaded \/ ~model_loaded
        /\ use_mlx' = b.use_mlx
        /\ model_loaded' = (model_loaded \/ loaded)
        /\ load_count' = IF loaded /\ ~model_loaded THEN load_count + 1 ELSE load_count
    /\ temp_exists' = TRUE
    /\ windows' = Append(windows, [start |-> current_time, end |-> EndTime])
    /\ pc' = "crashed"
    /\ calls' = SetResult("transcribe_raised")
    /\ UNCHANGED <<pure, config, chapters, driver, scan, found, saved, scored, last_best>>

\* One full iteration: the chunk is extracted, transcribed and scored.
\* Lines 98-196.  On a match the chapter is written and the function returns
\* True; the log line 188 formats int(best_segment_time) and raises TypeError
\* when that is None, after the chapter was written and before the cleanup.
ScanWindow ==
    /\ pc = "scan"
    /\ LoopGuard /\ ActualDuration >= MinChunk
    /\ \E mlx_ok \in (IF use_mlx THEN BOOLEAN ELSE {FALSE}), tr \in Transcripts :
        LET b == BackendAfter(mlx_ok)
            best_ratio == tr.best.best_ratio
            best_segment_time ==
                IF tr.best.best_start = None THEN None
                ELSE BestSegmentTime(current_time, tr.best.best_start)
            hit == MeetsConfidence(best_ratio, min_confidence)
        IN
        /\ tr.max_start < ActualDuration
        /\ use_mlx' = b.use_mlx
        /\ model_loaded' = b.model_loaded
        /\ load_count' = b.load_count
        /\ windows' = Append(windows, [start |-> current_time, end |-> EndTime])
        /\ scored' = Append(scored,
                [start |-> current_time,
                 qual |-> tr.top.any /\ tr.top.score >= 10 * min_confidence])
        /\ last_best' = tr.top
        /\ IF hit
           THEN /\ chapters' = [chapters EXCEPT ![CurChap] =
                        [status |-> "FOUND", confirmed_time |-> best_segment_time]]
                /\ UNCHANGED current_time
                /\ IF best_segment_time = None
                   THEN /\ temp_exists' = TRUE
                        /\ pc' = "crashed"
                        /\ calls' = SetResult("log_raised")
                        /\ UNCHANGED found
                   ELSE /\ temp_exists' = FALSE
                        /\ pc' = "ret"
                        /\ found' = TRUE
                        /\ calls' = SetResult("found")
           ELSE /\ current_time' = NextWindowStart(current_time)
                /\ temp_exists' = TRUE
                /\ UNCHANGED <<chapters, pc, found, calls>>
    /\ UNCHANGED <<pure, config, driver, start_search_time, max_search_duration, search_limit,
                   saved>>

\* ------------------------------------------- primary pass (main.py, app.py)
Primary == mode \in {"cli", "app"}

\* Python truthiness of chap.confirmed_time: None and 0.0 are false
Truthy(t) == t # None /\ t # 0

\* faulty variant: the anchor is never advanced
NextAnchorStale(f, conf, last) == last

\* if found: if chap.confirmed_time: last_confirmed_time = chap.confirmed_time
NextAnchor(f, conf, last) == IF f /\ Truthy(conf) THEN conf ELSE last

\* faulty variant: the window is never reset
NextWindowCliNoReset(f, cur, def) == IF f THEN cur ELSE cur + def

\* main.py: on success reset the window if it was expanded, on failure expand it
NextWindowCli(f, cur, def) ==
    IF f THEN (IF cur > def THEN def ELSE cur) ELSE cur + def

\* app.py: on success reset the window, on failure expand it
NextWindowApp(f, cur, def) == IF f THEN def ELSE cur + def

NextWindow(f, cur, def) ==
    IF mode = "cli" THEN NextWindowCli(f, cur, def) ELSE NextWindowApp(f, cur, def)

\* Verification, then the set-up of the pass (anchor 0.0, budget = default).  The command line marks the
\* excluded chapters IGNORED and exits when none is left; both drivers loop
\* over the chapters that were not excluded.
StartPrimary ==
    /\ pc = "start"
    /\ Primary
    /\ chapters' = [c \in ChapterIds |->
            IF mode = "cli" /\ c \in ignore_ids
            THEN [chapters[c] EXCEPT !.status = "IGNORED"]
            ELSE chapters[c]]
    /\ last_confirmed_time' = 0
    /\ current_search_window' = search_window
    /\ pc' = IF mode = "cli" /\ ignore_ids = ChapterIds THEN "exit" ELSE "loop"
    /\ UNCHANGED <<pure, config, i, scan, found, backend, temp_exists, saved, hist>>

\* faulty variant: the pass runs over all chapters, excluded ones included
PrimaryCallAny ==
    /\ pc = "loop"
    /\ Primary
    /\ i <= NumChapters
    /\ EnterScan(i, last_confirmed_time, current_search_window)
    /\ UNCHANGED <<pure, config, chapters, driver, found, backend, temp_exists, saved>>

\* found = analyzer.find_chapter_linear(chap, last_confirmed_time, ...)
PrimaryCall ==
    /\ pc = "loop"
    /\ Primary
    /\ i <= NumChapters
    /\ i \notin ignore_ids
    /\ EnterScan(i, last_confirmed_time, current_search_window)
    /\ UNCHANGED <<pure, config, chapters, driver, found, backend, temp_exists, saved>>

\* an excluded chapter is not in valid_chapters: the loop never sees it
PrimarySkipIgnored ==
    /\ pc = "loop"
    /\ Primary
    /\ i <= NumChapters
    /\ i \in ignore_ids
    /\ i' = i + 1
    /\ UNCHANGED <<pure, config, chapters, pc, last_confirmed_time, current_search_window,
                   scan, found, backend, temp_exists, saved, hist>>

PrimaryFound ==
    /\ pc = "ret"
    /\ Primary
    /\ found
    /\ last_confirmed_time' =
         NextAnchor(TRUE, chapters[i].confirmed_time, last_confirmed_time)
    /\ current_search_window' = NextWindow(TRUE, current_search_window, search_window)
    /\ i' = i + 1
    /\ pc' = "loop"
    /\ UNCHANGED <<pure, config, chapters, scan, found, backend, temp_exists, saved, hist>>

PrimaryNotFound ==
    /\ pc = "ret"
    /\ Primary
    /\ ~found
    /\ last_confirmed_time' =
         NextAnchor(FALSE, chapters[i].confirmed_time, last_confirmed_time)
    /\ current_search_window' = NextWindow(FALSE, current_search_window, search_window)
    /\ i' = i + 1
    /\ pc' = "loop"
    /\ UNCHANGED <<pure, config, chapters, scan, found, backend, temp_exists, saved, hist>>

\* The loop is over: the output phase writes the result set.
PrimaryOutput ==
    /\ pc = "loop"
    /\ Primary
    /\ i > NumChapters
    /\ saved' = TRUE
    /\ pc' = "done"
    /\ UNCHANGED <<pure, config, chapters, driver, scan, found, backend, temp_exists, hist>>

\* ------------------------------------------- Gap Recovery (find_missing.py)
IsAnchor(c) == chapters[c].status = "FOUND" /\ chapters[c].confirmed_time # None

\* faulty variant: the first preceding FOUND chapter instead of the nearest
StartBoundFirst(idx) ==
    LET P == {c \in 1..(idx - 1) : IsAnchor(c)}
    IN IF P = {} THEN 0
       ELSE chapters[CHOOSE c \in P : \A d \in P : c <= d].confirmed_time

\* faulty variant: only the times loaded before the pass serve as anchors
StartBoundLoaded(idx) ==
    LET P == {c \in 1..(idx - 1) : existing_map[c] # None}
    IN IF P = {} THEN 0
       ELSE existing_map[CHOOSE c \in P : \A d \in P : d <= c]

\* start_bound: the nearest preceding FOUND chapter's time, else 0.0
StartBound(idx) ==
    LET P == {c \in 1..(idx - 1) : IsAnchor(c)}
    IN IF P = {} THEN 0
       ELSE chapters[CHOOSE c \in P : \A d \in P : d <= c].confirmed_time

\* end_bound: the nearest following FOUND chapter's time, else total_duration
EndBound(idx) ==
    LET F == {c \in (idx + 1)..NumChapters : IsAnchor(c)}
    IN IF F = {} THEN total_duration
       ELSE chapters[CHOOSE c \in F : \A d \in F : c <= d].confirmed_time

\* faulty variant: the search starts on the anchor itself
ActualStartNoBuffer(idx) == StartBound(idx)

\* actual_start = start_bound + 5.0
ActualStart(idx) == StartBound(idx) + Buffer

\* faulty variant: the window is measured from the anchor, not from the start
ActualWindowNoBuffer(idx) == EndBound(idx) - StartBound(idx)

\* actual_window = end_bound - actual_start
ActualWindow(idx) == EndBound(idx) - ActualStart(idx)

\* Step 3 of find_missing_chapters: chapters in the existing results become
\* FOUND with the stored time, the others PENDING with no time.
MergeExisting ==
    /\ pc = "start"
    /\ mode = "gap"
    /\ chapters' = [c \in ChapterIds |->
            IF existing_map[c] # None
            THEN [status |-> "FOUND", confirmed_time |-> existing_map[c]]
            ELSE [status |-> "PENDING", confirmed_time |-> None]]
    /\ pc' = "loop"
    /\ UNCHANGED <<pure, config, driver, scan, found, backend, temp_exists, saved, hist>>

GapLoop == pc = "loop" /\ mode = "gap" /\ i <= NumChapters

\* if chap.status == "FOUND": continue
GapSkipFound ==
    /\ GapLoop
    /\ chapters[i].status = "FOUND"
    /\ i' = i + 1
    /\ UNCHANGED <<pure, config, chapters, pc, last_confirmed_time, current_search_window,
                   scan, found, backend, temp_exists, saved, hist>>

\* if search_window <= 0: continue
GapSkipInvalid ==
    /\ GapLoop
    /\ chapters[i].status # "FOUND"
    /\ EndBound(i) - StartBound(i) <= 0
    /\ i' = i + 1
    /\ UNCHANGED <<pure, config, chapters, pc, last_confirmed_time, current_search_window,
                   scan, found, backend, temp_exists, saved, hist>>

\* if actual_window < 10: continue
GapSkipSmall ==
    /\ GapLoop
    /\ chapters[i].status # "FOUND"
    /\ EndBound(i) - StartBound(i) > 0
    /\ ActualWindow(i) < MinGap
    /\ i' = i + 1
    /\ UNCHANGED <<pure, config, chapters, pc, last_confirmed_time, current_search_window,
                   scan, found, backend, temp_exists, saved, hist>>

\* faulty variant: the scan is started without looking at the chapter's status
GapCallAny ==
    /\ pc = "loop" /\ mode = "gap" /\ i <= NumChapters
    /\ EndBound(i) - StartBound(i) > 0
    /\ ActualWindow(i) >= MinGap
    /\ EnterScan(i, ActualStart(i), ActualWindow(i))
    /\ UNCHANGED <<pure, config, chapters, driver, found, backend, temp_exists, saved>>

\* found = analyzer.find_chapter_linear(chap, actual_start, actual_window)
GapCall ==
    /\ GapLoop
    /\ chapters[i].status # "FOUND"
    /\ EndBound(i) - StartBound(i) > 0
    /\ ActualWindow(i) >= MinGap
    /\ EnterScan(i, ActualStart(i), ActualWindow(i))
    /\ UNCHANGED <<pure, config, chapters, driver, found, backend, temp_exists, saved>>

\* the result is only logged
GapReturn ==
    /\ pc = "ret"
    /\ mode = "gap"
    /\ i' = i + 1
    /\ pc' = "loop"
    /\ UNCHANGED <<pure, config, chapters, last_confirmed_time, current_search_window,
                   scan, found, backend, temp_exists, saved, hist>>

\* save_results(chapters, ...)
GapSave ==
    /\ pc = "loop"
    /\ mode = "gap"
    /\ i > NumChapters
    /\ saved' = TRUE
    /\ pc' = "done"
    /\ UNCHANGED <<pure, config, chapters, driver, scan, found, backend, temp_exists, hist>>

Next ==
    \/ StartPrimary
    \/ PrimaryCall
    \/ PrimarySkipIgnored
    \/ PrimaryFound
    \/ PrimaryNotFound
    \/ PrimaryOutput
    \/ MergeExisting
    \/ GapSkipFound
    \/ GapSkipInvalid
    \/ GapSkipSmall
    \/ GapCall
    \/ GapReturn
    \/ GapSave
    \/ ScanExhausted
    \/ ExtractFail
    \/ TranscribeRaises
    \/ ScanWindow

Spec == Init /\ [][Next]_vars

\* The program is one sequential thread: a step that can be taken is taken.
SpecLive == Init /\ [][Next]_vars /\ WF_vars(Next)

\* ------------------------------- the scoring of one chunk, in isolation
\* Lines 144-187 applied to one transcription result.  Here an empty segment
\* carries the ratios the fuzzy matcher would return if it were called on it,
\* and the k-th segment starts at offset SegStartAt(k): the loop's result then
\* shows which segment it kept.  On every pair of Ratios the double expression
\* 0.7*p + 0.3*s equals 7*p + 3*s tenths exactly.
SegStartAt(k) == 10 * k

ScoreTexts == [empty : BOOLEAN, p_ratio : Ratios, s_ratio : Ratios]

ScoreSegSeqs ==
    {[k \in DOMAIN f |-> [empty |-> f[k].empty, p_ratio |-> f[k].p_ratio,
                          s_ratio |-> f[k].s_ratio, start |-> SegStartAt(k)]] :
        f \in UNION {[1..n -> ScoreTexts] : n \in 0..MaxSegs}}

\* a chunk start, a threshold and a transcription result
ScoreInputs == [segs : ScoreSegSeqs, ct : {0, overlap}, conf : {0, 70, DefaultMinConfidence}]

\* The drivers and the scanner at rest, while a function is checked in
\* isolation at position p.
Quiet(p) ==
    /\ mode = "cli"
    /\ min_confidence = DefaultMinConfidence
    /\ search_window = default_search_window
    /\ total_duration = 0
    /\ existing_map = [c \in ChapterIds |-> None]
    /\ ignore_ids = {}
    /\ chapters = [c \in ChapterIds |-> [status |-> "PENDING", confirmed_time |-> None]]
    /\ pc = p
    /\ i = 1
    /\ last_confirmed_time = 0
    /\ current_search_window = search_window
    /\ start_search_time = 0
    /\ max_search_duration = 0
    /\ current_time = 0
    /\ search_limit = 0
    /\ found = FALSE
    /\ use_mlx = FALSE
    /\ model_loaded = FALSE
    /\ load_count = 0
    /\ temp_exists = FALSE
    /\ saved = FALSE
    /\ calls = <<>>
    /\ windows = <<>>
    /\ scored = <<>>
    /\ last_best = NoBest

InitScore ==
    /\ Quiet("score")
    /\ fn_in \in ScoreInputs
    /\ fn_out = <<>>

\* the segment loop and the threshold test on fn_in
ScoreChunk ==
    /\ fn_out = <<>>
    /\ LET segs == fn_in.segs
           best == BestInChunk(segs)
       IN fn_out' = <<[scores |-> [k \in 1..Len(segs) |->
                                    FinalScore(segs[k].p_ratio, segs[k].s_ratio)],
                       best_ratio |-> best.best_ratio,
                       best_segment_time |->
                           IF best.best_start = None THEN None
                           ELSE BestSegmentTime(fn_in.ct, best.best_start),
                       hit |-> MeetsConfidence(best.best_ratio, fn_in.conf)]>>
    /\ UNCHANGED <<config, chapters, pc, driver, scan, found, backend, temp_exists,
                   saved, hist, fn_in>>

SpecScore == InitScore /\ [][ScoreChunk]_vars

\* ------------------------ verify_chapters (user_interaction.py), in isolation
\* The input line, split at commas.  A part is blank (dropped by the filter),
\* a number, a range "a-b" of two numbers, or text that int() rejects, with
\* or without a "-" in it.  A line without comma that is blank after strip()
\* is the empty input.
PartNumbers == {0, 2, NumChapters, NumChapters + 1}
PartKinds == {"blank", "num", "range", "bad", "badrange"}

InputParts ==
    {[kind |-> "blank", a |-> 0, b |-> 0], [kind |-> "bad", a |-> 0, b |-> 0],
     [kind |-> "badrange", a |-> 0, b |-> 0]}
    \cup {[kind |-> "num", a |-> n, b |-> 0] : n \in PartNumbers}
    \cup {[kind |-> "range", a |-> n, b |-> k] : n \in PartNumbers, k \in PartNumbers}

VerifyInputs == UNION {[1..n -> InputParts] : n \in 1..MaxParts}

\* if not user_input
EmptyInput(parts) == Len(parts) = 1 /\ parts[1].kind = "blank"

\* faulty variant: a reversed range is not swapped
RangeIdsNoSwap(start, end) == start..end

\* if start > end: start, end = end, start; range(start, end + 1)
RangeIds(start, end) == IF start > end THEN end..start ELSE start..end

\* The try block: the ids collected from the parts, or the ValueError of the
\* first part that int() rejects.
RECURSIVE ParseParts(_, _, _)
ParseParts(parts, k, ids) ==
    IF k > Len(parts) THEN [ok |-> TRUE, ids |-> ids]
    ELSE LET part == parts[k]
         IN CASE part.kind = "blank" -> ParseParts(parts, k + 1, ids)
              [] part.kind = "num" -> ParseParts(parts, k + 1, ids \cup {part.a})
              [] part.kind = "range" ->
                    ParseParts(parts, k + 1, ids \cup RangeIds(part.a, part.b))
              [] OTHER -> [ok |-> FALSE, ids |-> {}]

\* [c for c in chapters if c.status != "IGNORED"], as the ids in list order
RECURSIVE ActiveFrom(_, _)
ActiveFrom(c, st) ==
    IF c > NumChapters THEN <<>>
    ELSE IF st[c].status # "IGNORED" THEN <<c>> \o ActiveFrom(c + 1, st)
         ELSE ActiveFrom(c + 1, st)

AllFrom(c) == [k \in 1..(NumChapters - c + 1) |-> c + k - 1]

InitVerify ==
    /\ Quiet("verify")
    /\ fn_in \in VerifyInputs
    /\ fn_out = <<>>

\* the input is accepted: empty (all chapters returned as they are), or parsed,
\* the chapters in ignore_ids marked and the others returned
VerifyReturn ==
    /\ pc = "verify"
    /\ fn_out = <<>>
    /\ LET parsed == ParseParts(fn_in, 1, {})
       IN IF EmptyInput(fn_in)
          THEN /\ fn_out' = <<AllFrom(1)>>
               /\ UNCHANGED chapters
          ELSE /\ parsed.ok
               /\ LET marked == [c \in ChapterIds |->
                                    IF c \in parsed.ids
                                    THEN [chapters[c] EXCEPT !.status = "IGNORED"]
                                    ELSE chapters[c]]
                  IN /\ chapters' = marked
                     /\ fn_out' = <<ActiveFrom(1, marked)>>
    /\ UNCHANGED <<config, pc, driver, scan, found, backend, temp_exists, saved, hist,
                   fn_in>>

\* except ValueError: return verify_chapters(chapters): a new line is read
VerifyRetry ==
    /\ pc = "verify"
    /\ fn_out = <<>>
    /\ ~EmptyInput(fn_in)
    /\ ~ParseParts(fn_in, 1, {}).ok
    /\ fn_in' \in VerifyInputs
    /\ UNCHANGED <<config, chapters, pc, driver, scan, found, backend, temp_exists,
                   saved, hist, fn_out>>

NextVerify == VerifyReturn \/ VerifyRetry

SpecVerify == InitVerify /\ [][NextVerify]_vars

\* --------------------------- save_results (output_manager.py), in isolation
\* Here a confirmed_time is a float with one decimal, kept in tenths of a
\* second, so that int() has something to drop.  In an entry the title is the
\* chapter's position (0: the inserted intro), start_time is <<h, m, s>>
\* (<<>> for "") and seconds an integer (None for "").
SaveTimes == {0, 5, 100, 105, 36615}

\* The chapters a driver hands over: a chapter that reached FOUND and the
\* output phase has a time; the others have none.
SaveChapter ==
    {[status |-> "FOUND", confirmed_time |-> tm] : tm \in SaveTimes}
    \cup {[status |-> s, confirmed_time |-> None] : s \in {"PENDING", "FAILED"}}

SaveInputs == UNION {[1..n -> SaveChapter] : n \in 0..NumChapters}

\* faulty variant: the time is rounded to the nearest second
SecondsIntRounded(tm) == (tm + 5) \div 10

\* seconds_int = int(chap.confirmed_time)
SecondsInt(tm) == tm \div 10

\* m, s = divmod(seconds_int, 60); h, m = divmod(m, 60)
TimeStr(seconds_int) ==
    LET m0 == seconds_int \div 60
        s == seconds_int % 60
        h == m0 \div 60
        m == m0 % 60
    IN <<h, m, s>>

\* the intro check: first chapter FOUND, its time truthy and > 10.0
IntroNeeded(chs) ==
    /\ Len(chs) > 0
    /\ chs[1].status = "FOUND"
    /\ chs[1].confirmed_time # None
    /\ chs[1].confirmed_time # 0
    /\ chs[1].confirmed_time > 100

IntroEntry == [title |-> 0, start_time |-> <<0, 0, 0>>, seconds |-> 0]

ChapterEntry(k, chap) ==
    IF chap.status = "FOUND" /\ chap.confirmed_time # None
    THEN [title |-> k, start_time |-> TimeStr(SecondsInt(chap.confirmed_time)),
          seconds |-> SecondsInt(chap.confirmed_time)]
    ELSE [title |-> k, start_time |-> <<>>, seconds |-> None]

OutputData(chs) ==
    (IF IntroNeeded(chs) THEN <<IntroEntry>> ELSE <<>>)
    \o [k \in 1..Len(chs) |-> ChapterEntry(k, chs[k])]

InitSave ==
    /\ Quiet("save")
    /\ fn_in \in SaveInputs
    /\ fn_out = <<>>

\* save_results(valid_chapters, ...): output_data is built and written
SaveResults ==
    /\ pc = "save"
    /\ fn_out = <<>>
    /\ fn_out' = <<OutputData(fn_in)>>
    /\ saved' = TRUE
    /\ UNCHANGED <<config, chapters, pc, driver, scan, found, backend, temp_exists,
                   hist, fn_in>>

SpecSave == InitSave /\ [][SaveResults]_vars

\* ----------------------- sync_md_to_json (sync_logic.py), in isolation
\* A cell is the text between two pipes after strip(): kind says what text it
\* is and parts are its fields between colons (a title and a plain number
\* have one field, the empty text has none).
EmptyCell == [kind |-> "empty", parts |-> <<>>]
TitleCells == {[kind |-> "title", parts |-> <<k>>] : k \in 1..2}
TimeCells == {[kind |-> "time", parts |-> t] : t \in {<<0, 1, 0>>, <<1, 0, 5>>, <<1, 30>>}}
NumCells == {[kind |-> "num", parts |-> <<9999>>]}

\* A line of chapter_timestamps.md that starts with "|": the header or the
\* separator (it contains "Start Time" or "---"), or a row of three cells.
RuleLine == [kind |-> "rule", title |-> EmptyCell, start |-> EmptyCell, secs |-> EmptyCell]
RowLines ==
    [kind : {"row"}, title : {EmptyCell} \cup TitleCells,
     start : {EmptyCell} \cup TimeCells, secs : {EmptyCell} \cup NumCells]
SyncInputs == UNION {[1..n -> {RuleLine} \cup RowLines] : n \in 1..MaxLines}

\* parse_timestamp_to_seconds(ts_str)
ParseTimestampToSeconds(cell) ==
    LET parts == cell.parts
    IN IF cell = EmptyCell THEN 0
       ELSE IF Len(parts) = 3 THEN parts[1] * 3600 + parts[2] * 60 + parts[3]
       ELSE IF Len(parts) = 2 THEN parts[1] * 60 + parts[2]
       ELSE 0

\* parts = [p.strip() for p in stripped.split("|") if p.strip()]
RowParts(line) == SelectSeq(<<line.title, line.start, line.secs>>, LAMBDA c : c # EmptyCell)

\* what one row appends to chapters: nothing, or one entry
RowEntries(line) ==
    LET parts == RowParts(line)
    IN IF Len(parts) < 2 THEN <<>>
       ELSE IF parts[2] # EmptyCell
            THEN <<[title |-> parts[1], start_time |-> parts[2],
                    seconds |-> ParseTimestampToSeconds(parts[2])]>>
            ELSE <<[title |-> parts[1], start_time |-> EmptyCell, seconds |-> None]>>

\* the loop over the lines from line k on: per line, what it appended
RECURSIVE SyncLines(_, _, _)
SyncLines(lines, k, in_table) ==
    IF k > Len(lines) THEN <<>>
    ELSE IF lines[k].kind = "rule" THEN <<(<<>>)>> \o SyncLines(lines, k + 1, TRUE)
    ELSE IF in_table THEN <<RowEntries(lines[k])>> \o SyncLines(lines, k + 1, in_table)
    ELSE <<(<<>>)>> \o SyncLines(lines, k + 1, in_table)

RECURSIVE Flatten(_)
Flatten(ss) == IF ss = <<>> THEN <<>> ELSE Head(ss) \o Flatten(Tail(ss))

InitSync ==
    /\ Quiet("sync")
    /\ fn_in \in SyncInputs
    /\ fn_out = <<>>

\* sync_md_to_json(project_dir): the JSON file is written unless chapters is
\* empty
SyncMdToJson ==
    /\ pc = "sync"
    /\ fn_out = <<>>
    /\ LET appended == SyncLines(fn_in, 1, FALSE)
           chs == Flatten(appended)
       IN fn_out' = <<[appended |-> appended, chapters |-> chs, written |-> chs # <<>>]>>
    /\ UNCHANGED <<config, chapters, pc, driver, scan, found, backend, temp_exists,
                   saved, hist, fn_in>>

SpecSync == InitSync /\ [][SyncMdToJson]_vars

\* ------------------- the scoring of consecutive windows, in isolation
\* Lines 89-196 on the transcription results of one window or of two
\* consecutive windows of a scan from 0 with the default threshold: the
\* second window is scored only when the first did not reach the threshold.
\* An empty text carries the ratios the matcher would give it if called.
WinTexts ==
    {[empty |-> TRUE, p_ratio |-> 100, s_ratio |-> 100]}
    \cup {t \in [empty : {FALSE}, p_ratio : Ratios, s_ratio : Ratios] :
            t.s_ratio <= t.p_ratio}

WinSegSeqs ==
    {[k \in DOMAIN f |-> [empty |-> f[k].empty, p_ratio |-> f[k].p_ratio,
                          s_ratio |-> f[k].s_ratio, start |-> SegStartAt(k)]] :
        f \in UNION {[1..n -> WinTexts] : n \in 0..MaxSegs}}

WindowInputs == UNION {[1..n -> WinSegSeqs] : n \in {1, 2}}

\* current_time of the k-th window of a scan from 0
RECURSIVE WindowStartAt(_)
WindowStartAt(k) == IF k = 1 THEN 0 ELSE NextWindowStart(WindowStartAt(k - 1))

InitWindows ==
    /\ Quiet("windows")
    /\ fn_in \in WindowInputs
    /\ fn_out = <<>>

\* one iteration: best_ratio and best_segment_time are set anew (lines
\* 144-145), the segments of this window are scored, and the loop goes on
\* when the threshold is not reached
ScoreNextWindow ==
    /\ pc = "windows"
    /\ Len(fn_out) < Len(fn_in)
    /\ fn_out # <<>> =>
          ~MeetsConfidence(fn_out[Len(fn_out)].best_ratio, min_confidence)
    /\ LET k == Len(fn_out) + 1
           best == BestInChunk(fn_in[k])
       IN fn_out' = Append(fn_out,
                      [best_ratio |-> best.best_ratio,
                       best_start |-> best.best_start,
                       best_segment_time |->
                           IF best.best_start = None THEN None
                           ELSE BestSegmentTime(WindowStartAt(k), best.best_start)])
    /\ UNCHANGED <<config, chapters, pc, driver, scan, found, backend, temp_exists,
                   saved, hist, fn_in>>

SpecWindows == InitWindows /\ [][ScoreNextWindow]_vars

\* ------- load_existing_timestamps and the merge (find_missing.py), in isolation
\* A title is 0 for the empty string, or the number of a non-empty title.  An
\* entry of chapter_timestamps.json has a title and a start_time text: empty,
\* HH:MM:SS, MM:SS, a plain number, or three fields that are not numbers.
TitleIds == 0..2
BadTimeCell == [kind |-> "bad", parts |-> <<0, 0, 0>>]
StartTexts == {EmptyCell, BadTimeCell} \cup TimeCells \cup NumCells
JsonEntries == [title : TitleIds, start_time : StartTexts]
MergeInputs ==
    [toc : [ChapterIds -> TitleIds],
     data : UNION {[1..n -> JsonEntries] : n \in 0..MaxEntries}]

NoMapping == [t \in TitleIds |-> None]

\* The loop over the items from item k on.  An entry counts when title and
\* start_time are truthy and the text has three fields; int() raises on a
\* field that is not a number.
RECURSIVE LoadFrom(_, _, _)
LoadFrom(data, k, mapping) ==
    IF k > Len(data) THEN [ok |-> TRUE, mapping |-> mapping]
    ELSE LET title == data[k].title
             time_str == data[k].start_time
         IN IF title # 0 /\ time_str # EmptyCell /\ Len(time_str.parts) = 3
            THEN IF time_str.kind = "bad" THEN [ok |-> FALSE, mapping |-> NoMapping]
                 ELSE LoadFrom(data, k + 1,
                        [mapping EXCEPT ![title] = time_str.parts[1] * 3600
                                                   + time_str.parts[2] * 60
                                                   + time_str.parts[3]])
            ELSE LoadFrom(data, k + 1, mapping)

\* load_existing_timestamps(json_path): the mapping, or {} after an exception
LoadExistingTimestamps(data) == LoadFrom(data, 1, NoMapping).mapping

\* step 3 for one chapter: if chap.toc_title in existing_map ... else ...
MergedChapter(toc_title, mapping) ==
    IF mapping[toc_title] # None
    THEN [status |-> "FOUND", confirmed_time |-> mapping[toc_title]]
    ELSE [status |-> "PENDING", confirmed_time |-> None]

InitMerge ==
    /\ Quiet("merge")
    /\ fn_in \in MergeInputs
    /\ fn_out = <<>>

\* existing_map = load_existing_timestamps(json_path), then the merge loop
LoadAndMerge ==
    /\ pc = "merge"
    /\ fn_out = <<>>
    /\ LET mapping == LoadExistingTimestamps(fn_in.data)
       IN /\ fn_out' = <<mapping>>
          /\ chapters' = [c \in ChapterIds |-> MergedChapter(fn_in.toc[c], mapping)]
    /\ UNCHANGED <<config, pc, driver, scan, found, backend, temp_exists, saved, hist,
                   fn_in>>

SpecMerge == InitMerge /\ [][LoadAndMerge]_vars

\* ================================================================ claims
FailResults == {"exhausted", "extract_fail"}
LastCall == calls[Len(calls)]
TimeOf(c) == chapters[c].confirmed_time
StatusOf(c) == chapters[c].status

\* number of consecutive failed calls immediately before call k
RECURSIVE ConsecFails(_)
ConsecFails(k) ==
    IF k = 1 THEN 0
    ELSE IF calls[k - 1].result \in FailResults THEN 1 + ConsecFails(k - 1) ELSE 0

\* C1: the windows of a scan are scored in order from start_search_time, and
\* the first window whose highest-scoring segment reaches min_confidence
\* (inclusive) ends the scan: the call returns True, the chapter is FOUND and
\* confirmed_time = that window's start + that segment's offset.
C1_FirstQualifyingWindowConfirms ==
    /\ \A k \in 1..Len(scored) :
         scored[k].start = start_search_time + (k - 1) * (chunk_duration - overlap)
    /\ \A k \in 1..Len(scored) :
         scored[k].qual =>
            /\ k = Len(scored)
            /\ pc # "scan"
            /\ found
            /\ LastCall.result = "found"
            /\ StatusOf(CurChap) = "FOUND"
            /\ TimeOf(CurChap) = scored[k].start + last_best.off

\* C2: in the primary pass the budget passed to a chapter is the default when
\* the previous chapter succeeded (and for the first chapter), the previous
\* budget plus the default when it failed; after k consecutive failures it is
\* (k+1) x default.
C2_BudgetGrowthReset ==
    Primary =>
        /\ \A k \in 1..Len(calls) :
             calls[k].budget = (ConsecFails(k) + 1) * search_window
        /\ \A k \in 2..Len(calls) :
             /\ calls[k - 1].result = "found" => calls[k].budget = search_window
             /\ calls[k - 1].result \in FailResults =>
                    calls[k].budget = calls[k - 1].budget + search_window
        /\ pc = "loop" /\ Len(calls) = i - 1 =>
             current_search_window = (ConsecFails(i) + 1) * search_window

C2_Witness ==
    /\ Primary
    /\ Len(calls) = 3
    /\ calls[1].result \in FailResults
    /\ calls[2].budget = 2 * search_window
    /\ calls[2].result = "found"
    /\ calls[3].budget = search_window

\* C3: in the primary pass the first scan starts at 0.0; a scan after a failed
\* one starts where that one started (anchor unchanged); a scan after a
\* successful one starts at that chapter's confirmed_time; between scans the
\* anchor is the start value the next scan will get.
C3_AnchorChaining ==
    Primary =>
        /\ Len(calls) >= 1 => calls[1].start = 0
        /\ \A k \in 2..Len(calls) :
             calls[k].start = IF calls[k - 1].result = "found"
                              THEN TimeOf(calls[k - 1].chap)
                              ELSE calls[k - 1].start
        /\ pc = "loop" /\ Len(calls) >= 1 =>
             last_confirmed_time = IF LastCall.result = "found"
                                   THEN TimeOf(LastCall.chap)
                                   ELSE LastCall.start

C3_Witness ==
    /\ Primary
    /\ Len(calls) = 3
    /\ calls[1].result = "found"
    /\ TimeOf(1) > 0
    /\ calls[2].result \in FailResults
    /\ calls[3].start = TimeOf(1)

\* C4: when the primary pass has finished, the confirmed times of the FOUND
\* chapters are non-decreasing in document order.
C4_PrimaryTimesMonotone ==
    Primary /\ pc = "done" =>
        \A a \in ChapterIds, b \in ChapterIds :
            a < b /\ StatusOf(a) = "FOUND" /\ StatusOf(b) = "FOUND" =>
                TimeOf(a) <= TimeOf(b)

C4_Witness ==
    /\ Primary
    /\ pc = "done"
    /\ StatusOf(1) = "FOUND"
    /\ StatusOf(2) = "FAILED"
    /\ StatusOf(3) = "FOUND"
    /\ TimeOf(1) > 0
    /\ TimeOf(3) > TimeOf(1)

\* C5: every chapter marked FOUND by the primary pass has a confirmed_time
\* that is at least the anchor passed as start_search_time to its scan.
C5_FoundNotBeforeAnchor ==
    Primary =>
        \A k \in 1..Len(calls) :
            StatusOf(calls[k].chap) = "FOUND" =>
                /\ TimeOf(calls[k].chap) # None
                /\ TimeOf(calls[k].chap) >= calls[k].start

\* C6: in every reachable state of the primary pass and of Gap Recovery, a
\* chapter whose status is FOUND has a non-null confirmed_time.
C6_FoundHasTime ==
    \A c \in ChapterIds : StatusOf(c) = "FOUND" => TimeOf(c) # None

\* C7: every chapter set to FOUND by find_chapter_linear has its
\* confirmed_time in [0, audio_duration).
C7_FoundWithinAudio ==
    \A k \in 1..Len(calls) :
        StatusOf(calls[k].chap) = "FOUND" =>
            /\ TimeOf(calls[k].chap) # None
            /\ 0 <= TimeOf(calls[k].chap)
            /\ TimeOf(calls[k].chap) < total_duration

\* C8: when extraction fails on a window the call returns False at once, the
\* chapter's status becomes FAILED, no segment of that window is scored and no
\* further window is extracted for the chapter.
C8_ExtractFailMarksFailed ==
    \A k \in 1..Len(calls) :
        calls[k].result = "extract_fail" =>
            /\ StatusOf(calls[k].chap) = "FAILED"
            /\ k = Len(calls) =>
                 /\ pc # "scan"
                 /\ ~found
                 /\ \A w \in 1..Len(scored) : scored[w].start # current_time
                 /\ \A w \in 1..Len(windows) : windows[w].start # current_time

\* C9: when the transcription of a window raises, the error is absorbed: the
\* chapter's attempt ends with status FAILED, the pass goes on to the next
\* chapter and the run still produces its result set.
C9_TranscribeErrorAbsorbed ==
    \A k \in 1..Len(calls) :
        calls[k].result = "transcribe_raised" =>
            /\ StatusOf(calls[k].chap) = "FAILED"
            /\ pc # "crashed"

\* C10: a scan that ends by exhaustion (the loop guard fails or the remaining
\* audio is too short, no scored window having reached min_confidence)
\* returns False, sets the status to FAILED, leaves confirmed_time unchanged
\* and raises nothing.
C10_ExhaustionFails ==
    [][ (pc = "scan" /\ (~LoopGuard \/ ActualDuration < MinChunk) /\ pc' # "scan") =>
            /\ \A w \in 1..Len(scored) : ~scored[w].qual
            /\ pc' = "ret"
            /\ found' = FALSE
            /\ chapters'[CurChap].status = "FAILED"
            /\ chapters'[CurChap].confirmed_time = chapters[CurChap].confirmed_time
            /\ \A c \in ChapterIds \ {CurChap} : chapters'[c] = chapters[c] ]_vars

C10_Witness ==
    /\ pc = "ret"
    /\ LastCall.result = "exhausted"
    /\ Len(scored) >= 2
    /\ ~found
    /\ StatusOf(CurChap) = "FAILED"
    /\ TimeOf(CurChap) = None

\* C11: within one scan the windows are extracted one at a time in strictly
\* increasing start order, and once a window has produced a confirmed match no
\* further window is extracted or transcribed for that chapter.
C11_SequentialShortCircuit ==
    [][ /\ \A k \in 2..Len(windows') : windows'[k - 1].start < windows'[k].start
        /\ Len(calls') = Len(calls) =>
              \/ windows' = windows
              \/ /\ pc = "scan"
                 /\ LastCall.result = "running"
                 /\ StatusOf(CurChap) # "FOUND"
                 /\ windows' = Append(windows, [start |-> current_time, end |-> EndTime])
        /\ Len(calls') # Len(calls) =>
              /\ pc # "scan"
              /\ windows' = <<>>
              /\ calls'[Len(calls')].chap \notin {calls[k].chap : k \in 1..Len(calls)} ]_vars

C11_Witness ==
    /\ pc = "ret"
    /\ LastCall.result = "found"
    /\ StatusOf(CurChap) = "FOUND"
    /\ Len(windows) >= 3
    /\ Len(scored) = Len(windows)

C13_ScoreFormula ==
    fn_out # <<>> =>
        LET segs == fn_in.segs
            r == fn_out[1]
            N == 1..Len(segs)
        IN /\ \A k \in N :
                /\ r.scores[k] = 7 * segs[k].p_ratio + 3 * segs[k].s_ratio
                /\ 0 <= r.scores[k] /\ r.scores[k] <= 1000
                /\ segs[k].p_ratio = 100 /\ segs[k].s_ratio = 0 => r.scores[k] = 700
                /\ segs[k].p_ratio = 100 /\ segs[k].s_ratio = 100 => r.scores[k] = 1000
           /\ \A a \in N, b \in N :
                segs[a].p_ratio = segs[b].p_ratio /\ segs[a].s_ratio > segs[b].s_ratio =>
                    /\ r.scores[a] > r.scores[b]
                    /\ Len(segs) = 2 /\ ~segs[a].empty /\ ~segs[b].empty =>
                          /\ r.best_ratio = r.scores[a]
                          /\ r.best_segment_time = fn_in.ct + segs[a].start

C13_Witness ==
    /\ fn_out # <<>>
    /\ Len(fn_in.segs) = 2
    /\ fn_in.segs[1] = [empty |-> FALSE, p_ratio |-> 100, s_ratio |-> 0,
                        start |-> SegStartAt(1)]
    /\ fn_in.segs[2] = [empty |-> FALSE, p_ratio |-> 100, s_ratio |-> 100,
                        start |-> SegStartAt(2)]
    /\ fn_in.ct = overlap
    /\ fn_out[1].scores = <<700, 1000>>
    /\ fn_out[1].best_segment_time = overlap + SegStartAt(2)
    /\ fn_out[1].hit

\* C14: a segment whose text is empty after strip() is never scored and its
\* time is never the one kept for confirmed_time, whatever the threshold and
\* the mix of empty and non-empty segments: the loop's result is that of the
\* non-empty segments alone.  Checked under SpecScore.
C14_EmptySegmentsSkipped ==
    fn_out # <<>> =>
        LET segs == fn_in.segs
            r == fn_out[1]
            kept == {k \in 1..Len(segs) : ~segs[k].empty}
        IN /\ \A k \in 1..Len(segs) :
                segs[k].empty => r.best_segment_time # fn_in.ct + segs[k].start
           /\ \A k \in kept : r.scores[k] <= r.best_ratio
           /\ r.best_ratio > 0 => \E k \in kept : r.scores[k] = r.best_ratio
           /\ r.best_segment_time # None =>
                \E k \in kept : /\ r.best_segment_time = fn_in.ct + segs[k].start
                                 /\ r.scores[k] = r.best_ratio
           /\ kept = {} => r.best_ratio = 0 /\ r.best_segment_time = None

C14_Witness ==
    /\ fn_out # <<>>
    /\ Len(fn_in.segs) = 2
    /\ fn_in.segs[1].empty
    /\ fn_in.segs[1].p_ratio = 100
    /\ fn_in.segs[1].s_ratio = 100
    /\ ~fn_in.segs[2].empty
    /\ fn_in.segs[2].p_ratio = 50
    /\ fn_in.conf = 0
    /\ fn_out[1].hit
    /\ fn_out[1].best_ratio < 1000
    /\ fn_out[1].best_segment_time = fn_in.ct + SegStartAt(2)

\* The bounds of a gap as the claims word them: walk from the chapter towards
\* either end until a chapter whose status is FOUND (0: none).
RECURSIVE NearestFoundBefore(_)
NearestFoundBefore(c) ==
    IF c < 1 THEN 0
    ELSE IF StatusOf(c) = "FOUND" THEN c ELSE NearestFoundBefore(c - 1)

RECURSIVE NearestFoundAfter(_)
NearestFoundAfter(c) ==
    IF c > NumChapters THEN 0
    ELSE IF StatusOf(c) = "FOUND" THEN c ELSE NearestFoundAfter(c + 1)

GapLower(idx) ==
    LET c == NearestFoundBefore(idx - 1) IN IF c = 0 THEN 0 ELSE TimeOf(c)

GapUpper(idx) ==
    LET c == NearestFoundAfter(idx + 1) IN IF c = 0 THEN total_duration ELSE TimeOf(c)

GapCalled == mode = "gap" /\ Len(calls') = Len(calls) + 1
NewCall == calls'[Len(calls')]

\* C15: in Gap Recovery, when the loop is at a non-FOUND chapter i, the lower
\* bound is the confirmed_time of the nearest preceding chapter that is FOUND
\* at that moment (0.0 if none) and the upper bound that of the nearest
\* following FOUND chapter (the total duration if none).
C15_GapBounds ==
    mode = "gap" /\ pc = "loop" /\ i <= NumChapters /\ StatusOf(i) # "FOUND" =>
        /\ StartBound(i) = GapLower(i)
        /\ EndBound(i) = GapUpper(i)

C15_Witness ==
    /\ mode = "gap" /\ pc = "loop" /\ i = 3
    /\ StatusOf(1) = "FOUND" /\ StatusOf(2) = "FOUND" /\ StatusOf(3) = "PENDING"
    /\ TimeOf(1) = 100 /\ TimeOf(2) = 500
    /\ total_duration = 700
    /\ StartBound(3) = 500
    /\ EndBound(3) = 700

\* C16: Gap Recovery invokes the scan of a missing chapter with
\* search_start = lower_bound + 5 and search_budget = upper_bound -
\* search_start; bounds 100 and 500 give start 105 and budget 395.
C16_GapCallArguments ==
    [][ GapCalled =>
            /\ NewCall.chap = i
            /\ NewCall.start = GapLower(i) + 5
            /\ NewCall.budget = GapUpper(i) - NewCall.start
            /\ start_search_time' = NewCall.start
            /\ max_search_duration' = NewCall.budget
            /\ GapLower(i) = 100 /\ GapUpper(i) = 500 =>
                  NewCall.start = 105 /\ NewCall.budget = 395 ]_vars

C16_Witness ==
    /\ mode = "gap" /\ pc = "scan"
    /\ existing_map = [c \in ChapterIds |-> IF c = 1 THEN 100 ELSE IF c = 3 THEN 500 ELSE None]
    /\ Len(calls) = 1
    /\ LastCall.chap = 2
    /\ LastCall.start = 105
    /\ LastCall.budget = 395

\* C17 as stated: once a missing chapter has been recovered in a pass, every
\* later missing chapter of the pass uses the recovered time as its lower
\* bound (its search starts 5 seconds after it), so its search starts at or
\* after the recovered time.
C17_Original ==
    mode = "gap" =>
        \A k \in 1..Len(calls), n \in 1..Len(calls) :
            k < n /\ calls[k].result = "found" =>
                /\ calls[n].start - Buffer = TimeOf(calls[k].chap)
                /\ calls[n].start >= TimeOf(calls[k].chap)

\* C17 (amended): once a missing chapter has been recovered in a pass, a later
\* missing chapter with no FOUND chapter between the two uses the recovered
\* time as its lower bound: its search, when one is made, starts 5 seconds
\* after the recovered time.
C17_GapChaining ==
    mode = "gap" =>
        \A k \in 1..Len(calls), n \in 1..Len(calls) :
            /\ k < n
            /\ calls[k].result = "found"
            /\ \A c \in (calls[k].chap + 1)..(calls[n].chap - 1) : StatusOf(c) # "FOUND"
            => /\ calls[n].start = TimeOf(calls[k].chap) + Buffer
               /\ calls[n].start >= TimeOf(calls[k].chap)

C17_Witness ==
    /\ mode = "gap"
    /\ existing_map = [c \in ChapterIds |-> IF c = 1 THEN 100 ELSE None]
    /\ Len(calls) = 2
    /\ calls[1].chap = 2 /\ calls[1].start = 105 /\ calls[1].result = "found"
    /\ TimeOf(2) > 105
    /\ calls[2].chap = 3
    /\ calls[2].start = TimeOf(2) + 5

\* C18: in Gap Recovery, when upper_bound - lower_bound is not positive, or
\* the window left after the 5-second buffer is below 10 seconds, the scanner
\* is not invoked for the chapter, its status and confirmed_time stay as they
\* are, and the pass goes on to the next chapter.
C18_InvalidBoundsSkipped ==
    [][ ( /\ mode = "gap" /\ pc = "loop" /\ i <= NumChapters
          /\ StatusOf(i) # "FOUND"
          /\ \/ GapUpper(i) - GapLower(i) <= 0
             \/ GapUpper(i) - (GapLower(i) + 5) < 10 )
        => /\ calls' = calls
           /\ windows' = windows
           /\ chapters' = chapters
           /\ i' = i + 1
           /\ pc' = "loop" ]_vars

C18_Witness ==
    /\ mode = "gap" /\ pc = "done"
    /\ existing_map = [c \in ChapterIds |-> IF c = 1 THEN 100 ELSE IF c = 3 THEN 110 ELSE None]
    /\ calls = <<>>
    /\ StatusOf(2) = "PENDING"
    /\ TimeOf(2) = None
    /\ saved

\* C19: every chapter recovered by Gap Recovery has its confirmed_time between
\* the bounds of its search (lower_bound + buffer <= confirmed_time <=
\* upper_bound); so when the anchors loaded before the pass are non-decreasing
\* in document order, the times of all FOUND chapters are non-decreasing in
\* document order after the pass.
C19_RecoveredWithinBounds ==
    mode = "gap" =>
        /\ \A k \in 1..Len(calls) :
             calls[k].result = "found" =>
                /\ calls[k].start <= TimeOf(calls[k].chap)
                /\ TimeOf(calls[k].chap) <= calls[k].start + calls[k].budget
        /\ ( /\ pc = "done"
             /\ \A a \in ChapterIds, b \in ChapterIds :
                    a < b /\ existing_map[a] # None /\ existing_map[b] # None =>
                        existing_map[a] <= existing_map[b] )
           => \A a \in ChapterIds, b \in ChapterIds :
                    a < b /\ StatusOf(a) = "FOUND" /\ StatusOf(b) = "FOUND" =>
                        TimeOf(a) <= TimeOf(b)

\* C20: Gap Recovery never invokes the scanner for a chapter that is already
\* FOUND and never changes the status or confirmed_time of such a chapter.
C20_FoundIsFinal ==
    [][ mode = "gap" /\ pc # "start" =>
            /\ \A c \in ChapterIds : StatusOf(c) = "FOUND" => chapters'[c] = chapters[c]
            /\ Len(calls') > Len(calls) => StatusOf(NewCall.chap) # "FOUND" ]_vars

C20_Witness ==
    /\ mode = "gap" /\ pc = "done"
    /\ existing_map[1] = 100
    /\ StatusOf(1) = "FOUND" /\ TimeOf(1) = 100
    /\ Len(calls) = 2
    /\ calls[1].chap = 2 /\ calls[1].result = "found"
    /\ calls[2].chap = 3 /\ calls[2].result = "found"

\* what the merge of the existing results makes of chapter c
Merged(c) ==
    IF existing_map[c] # None
    THEN [status |-> "FOUND", confirmed_time |-> existing_map[c]]
    ELSE [status |-> "PENDING", confirmed_time |-> None]

\* C21: with a failed duration probe (duration 0.0) every Gap Recovery attempt
\* is rejected before the scanner: no scan is invoked and every chapter keeps
\* the status and time the merge gave it, whatever anchors were loaded.
C21_ZeroDurationRejectsAll ==
    mode = "gap" /\ total_duration = 0 =>
        /\ calls = <<>>
        /\ pc # "start" => \A c \in ChapterIds : chapters[c] = Merged(c)

\* C22: when the primary pass has finished, every chapter that was passed to
\* the scanner has status FOUND or FAILED.
C22_PrimaryAllSettled ==
    Primary /\ pc = "done" =>
        \A k \in 1..Len(calls) : StatusOf(calls[k].chap) \in {"FOUND", "FAILED"}

\* C24: when every chapter is FOUND after the merge, find_missing_chapters
\* invokes no scan and does not save results.
C24_NoGapsNoSave ==
    mode = "gap" /\ (\A c \in ChapterIds : existing_map[c] # None) =>
        /\ calls = <<>>
        /\ ~saved

\* C28: every window [start, end) extracted by a call of find_chapter_linear
\* ends at or before start_search_time + max_search_duration.
C28_WindowWithinBudget ==
    \A k \in 1..Len(windows) :
        windows[k].end <= start_search_time + max_search_duration

WinLen(k) == windows[k].end - windows[k].start

C23_IgnoredIsTerminal ==
    [][ /\ \A c \in ChapterIds :
             StatusOf(c) = "IGNORED" => chapters'[c] = chapters[c]
        /\ (Primary /\ Len(calls') > Len(calls)) =>
             /\ StatusOf(NewCall.chap) # "IGNORED"
             /\ NewCall.chap \notin ignore_ids
        /\ (mode = "cli" /\ pc = "start" /\ pc' # "start") =>
             \A c \in ChapterIds : chapters'[c].status = "IGNORED" <=> c \in ignore_ids ]_vars

C23_Witness ==
    /\ mode = "cli" /\ pc = "done" /\ saved
    /\ ignore_ids = {2}
    /\ StatusOf(2) = "IGNORED" /\ TimeOf(2) = None
    /\ Len(calls) = 2
    /\ calls[1].chap = 1 /\ calls[1].result = "found"
    /\ calls[2].chap = 3 /\ calls[2].result = "found"

\* the ids an input line names, read off its parts
NamedIds(parts) ==
    {n \in 0..(NumChapters + 1) :
        \E k \in 1..Len(parts) :
            \/ parts[k].kind = "num" /\ parts[k].a = n
            \/ /\ parts[k].kind = "range"
               /\ \/ parts[k].a <= n /\ n <= parts[k].b
                  \/ parts[k].b <= n /\ n <= parts[k].a}

ValidLine(parts) == \A k \in 1..Len(parts) : parts[k].kind \in {"blank", "num", "range"}

\* C25: verify_chapters returns, in original order, exactly the chapters whose
\* index is not in the ignore set parsed from the input (numbers and inclusive
\* ranges, a reversed range being swapped) and marks exactly the chapters of
\* that set IGNORED; on empty input it returns all chapters unchanged; on
\* invalid input no status changes before the next prompt.  Checked under
\* SpecVerify.
C25_VerifyChapters ==
    /\ fn_out = <<>> => \A c \in ChapterIds : StatusOf(c) = "PENDING"
    /\ fn_out # <<>> =>
        LET returned == fn_out[1]
            ig == NamedIds(fn_in)
        IN /\ ValidLine(fn_in)
           /\ \A c \in ChapterIds : StatusOf(c) = (IF c \in ig THEN "IGNORED" ELSE "PENDING")
           /\ \A c \in ChapterIds : TimeOf(c) = None
           /\ {returned[k] : k \in 1..Len(returned)} = ChapterIds \ ig
           /\ \A k \in 1..Len(returned), n \in 1..Len(returned) :
                k < n => returned[k] < returned[n]
           /\ EmptyInput(fn_in) => Len(returned) = NumChapters

C25_Witness ==
    /\ fn_out # <<>>
    /\ Len(fn_in) = 2
    /\ fn_in[1] = [kind |-> "range", a |-> 3, b |-> 2]
    /\ fn_in[2] = [kind |-> "blank", a |-> 0, b |-> 0]
    /\ fn_out[1] = <<1>>
    /\ StatusOf(1) = "PENDING"
    /\ StatusOf(2) = "IGNORED"
    /\ StatusOf(3) = "IGNORED"

\* C26: save_results writes exactly one entry per input chapter, in input
\* order, preceded by an intro entry at 00:00:00 if and only if the first
\* chapter is FOUND with confirmed_time > 10; a FOUND chapter's entry carries
\* floor(confirmed_time) as seconds and its HH:MM:SS form, any other chapter's
\* entry has empty start_time and seconds.  Checked under SpecSave.
C26_SaveResults ==
    fn_out # <<>> =>
        LET out == fn_out[1]
            n == Len(fn_in)
            intro == n > 0 /\ fn_in[1].status = "FOUND" /\ fn_in[1].confirmed_time > 100
            d == IF intro THEN 1 ELSE 0
        IN /\ saved
           /\ Len(out) = n + d
           /\ intro => out[1] = [title |-> 0, start_time |-> <<0, 0, 0>>, seconds |-> 0]
           /\ \A k \in 1..n :
                LET e == out[k + d]
                    tm == fn_in[k].confirmed_time
                IN /\ e.title = k
                   /\ IF fn_in[k].status = "FOUND"
                      THEN /\ 10 * e.seconds <= tm /\ tm < 10 * (e.seconds + 1)
                           /\ Len(e.start_time) = 3
                           /\ e.start_time[1] * 3600 + e.start_time[2] * 60
                                + e.start_time[3] = e.seconds
                           /\ e.start_time[2] \in 0..59
                           /\ e.start_time[3] \in 0..59
                      ELSE e.start_time = <<>> /\ e.seconds = None

C26_Witness ==
    /\ fn_out # <<>>
    /\ Len(fn_in) = 3
    /\ fn_in[1] = [status |-> "FOUND", confirmed_time |-> 105]
    /\ fn_in[2].status = "FAILED"
    /\ fn_in[3] = [status |-> "FOUND", confirmed_time |-> 36615]
    /\ Len(fn_out[1]) = 4
    /\ fn_out[1][1].title = 0
    /\ fn_out[1][2] = [title |-> 1, start_time |-> <<0, 0, 10>>, seconds |-> 10]
    /\ fn_out[1][3] = [title |-> 2, start_time |-> <<>>, seconds |-> None]
    /\ fn_out[1][4] = [title |-> 3, start_time |-> <<1, 1, 1>>, seconds |-> 3661]

CeilDiv(a, b) == (a + b - 1) \div b

\* at most ceil(min(duration - start, budget) / 120) windows per call (none
\* when that span is not positive)
WindowsBound ==
    LET span == Min(total_duration - start_search_time, max_search_duration)
    IN Len(windows) <= (IF span <= 0 THEN 0 ELSE CeilDiv(span, chunk_duration - overlap))

\* the scanner is invoked at most once per chapter, in list order
OncePerChapterInOrder ==
    \A k \in 1..Len(calls), n \in 1..Len(calls) : k < n => calls[k].chap < calls[n].chap

\* the run has stopped: the pass is over or an exception left the program
Halted == pc \in {"done", "exit", "crashed"}

\* C30: every call of find_chapter_linear ends after at most
\* ceil(min(duration - start, budget) / 120) windows; each pass invokes the
\* scanner at most once per chapter and terminates after visiting every
\* chapter once in list order (main.py starts no pass when verification
\* leaves no chapter).  Checked under SpecLive.
C30_Terminates ==
    /\ [](WindowsBound /\ OncePerChapterInOrder)
    /\ <>((pc = "done" /\ i = NumChapters + 1) \/ pc = "exit")

\* what holds in every run, those ended by an exception included
HaltsWithinBounds ==
    /\ [](WindowsBound /\ OncePerChapterInOrder)
    /\ [](pc = "done" => i = NumChapters + 1)
    /\ <>Halted

\* the rows of the table: the row lines after the first header or separator
IsDataRow(k) ==
    /\ fn_in[k].kind = "row"
    /\ \E j \in 1..(k - 1) : fn_in[j].kind = "rule"

\* C27: sync_md_to_json gives every table row with a start time an entry
\* whose start_time is the row's Start Time cell and whose seconds are
\* h*3600 + m*60 + s of that cell (m*60 + s for MM:SS), whatever the row's
\* Seconds cell holds.  Checked under SpecSync.
C27_SecondsFromStartTime ==
    fn_out # <<>> =>
        \A k \in 1..Len(fn_in) :
            (IsDataRow(k) /\ fn_in[k].start # EmptyCell) =>
                /\ Len(fn_out[1].appended[k]) = 1
                /\ fn_out[1].appended[k][1].start_time = fn_in[k].start
                /\ fn_out[1].appended[k][1].seconds =
                       ParseTimestampToSeconds(fn_in[k].start)

\* the same, for the rows whose Chapter cell is not empty
SyncTitledRows ==
    fn_out # <<>> =>
        \A k \in 1..Len(fn_in) :
            (IsDataRow(k) /\ fn_in[k].start # EmptyCell /\ fn_in[k].title # EmptyCell) =>
                /\ Len(fn_out[1].appended[k]) = 1
                /\ fn_out[1].appended[k][1].title = fn_in[k].title
                /\ fn_out[1].appended[k][1].start_time = fn_in[k].start
                /\ fn_out[1].appended[k][1].seconds =
                       ParseTimestampToSeconds(fn_in[k].start)

MlxFails == use_mlx /\ ~use_mlx'

\* C32: in the step in which the accelerated transcription of a window fails,
\* the standard backend transcribes that same window (its result is scored in
\* that iteration, the chapter is not set to FAILED), and once use_mlx is
\* false it stays false for every later window and chapter.
C32_MlxFallback ==
    [][ /\ MlxFails =>
            /\ model_loaded'
            /\ windows' = Append(windows, [start |-> current_time, end |-> EndTime])
            /\ Len(scored') = Len(scored) + 1
            /\ scored'[Len(scored')].start = current_time
            /\ StatusOf(CurChap)' # "FAILED"
        /\ ~use_mlx => ~use_mlx' ]_vars

\* the same, where the standard backend may raise on that window
MlxFallbackAttempted ==
    [][ /\ MlxFails =>
            /\ windows' = Append(windows, [start |-> current_time, end |-> EndTime])
            /\ \/ /\ model_loaded'
                  /\ Len(scored') = Len(scored) + 1
                  /\ scored'[Len(scored')].start = current_time
               \/ /\ pc' = "crashed"
                  /\ calls'[Len(calls')].result = "transcribe_raised"
            /\ StatusOf(CurChap)' # "FAILED"
        /\ ~use_mlx => ~use_mlx' ]_vars

\* a step that extracts a window
WindowStep == Len(windows') = Len(windows) + 1

\* C33: the standard model is loaded at most once over all windows and
\* chapters; it is loaded in a step that extracts a window whose
\* transcription falls to the standard backend while no model is held, every
\* window the standard backend has transcribed leaves the model held, the
\* held model is never dropped, and no load happens in a window the
\* accelerated backend transcribes.
C33_ModelLoadedOnce ==
    [][ /\ load_count' <= 1
        /\ model_loaded' <=> load_count' = 1
        /\ model_loaded => model_loaded' /\ load_count' = load_count
        /\ load_count' # load_count =>
              /\ load_count' = load_count + 1
              /\ WindowStep
              /\ ~use_mlx'
        /\ WindowStep /\ use_mlx' => load_count' = load_count
        /\ WindowStep /\ ~use_mlx' /\ pc' # "crashed" => model_loaded' ]_vars

C33_Witness ==
    /\ load_count = 1
    /\ model_loaded
    /\ ~use_mlx
    /\ Len(calls) = 3
    /\ Len(windows) = 2
    /\ pc = "scan"

\* C34: sync_md_to_json appends exactly one entry per data row of the table,
\* in row order, and nothing for the other lines; the entry carries the row's
\* title, and a row whose Start Time cell is empty gives an entry with empty
\* start_time and empty seconds, so the JSON has as many chapters as the
\* table has rows.  Checked under SpecSync.
C34_OneEntryPerRow ==
    fn_out # <<>> =>
        LET r == fn_out[1]
            rows == {k \in 1..Len(fn_in) : IsDataRow(k)}
        IN /\ \A k \in 1..Len(fn_in) : Len(r.appended[k]) = (IF k \in rows THEN 1 ELSE 0)
           /\ \A k \in rows :
                /\ r.appended[k][1].title = fn_in[k].title
                /\ fn_in[k].start = EmptyCell =>
                      /\ r.appended[k][1].start_time = EmptyCell
                      /\ r.appended[k][1].seconds = None
           /\ Len(r.chapters) = Cardinality(rows)
           /\ r.chapters = Flatten(r.appended)
           /\ r.written <=> rows # {}

\* the entries of the existing results that carry title t and an HH:MM:SS time
TimedEntries(t) ==
    {k \in 1..Len(fn_in.data) :
        /\ fn_in.data[k].title = t
        /\ fn_in.data[k].start_time.kind = "time"
        /\ Len(fn_in.data[k].start_time.parts) = 3}

EntrySeconds(k) ==
    LET t == fn_in.data[k].start_time.parts IN t[1] * 3600 + t[2] * 60 + t[3]

\* C35: after the merge a chapter is FOUND with the stored time exactly when
\* its title has an entry with a non-empty HH:MM:SS start_time, otherwise it
\* is PENDING with no time; no chapter is FOUND without a time and none is
\* FAILED or IGNORED.  Checked under SpecMerge.
C35_MergeExisting ==
    fn_out # <<>> =>
        \A c \in ChapterIds :
            /\ TimedEntries(fn_in.toc[c]) # {} =>
                  /\ StatusOf(c) = "FOUND"
                  /\ \E k \in TimedEntries(fn_in.toc[c]) : TimeOf(c) = EntrySeconds(k)
            /\ TimedEntries(fn_in.toc[c]) = {} =>
                  /\ StatusOf(c) = "PENDING"
                  /\ TimeOf(c) = None
            /\ StatusOf(c) = "FOUND" => TimeOf(c) # None
            /\ StatusOf(c) \notin {"FAILED", "IGNORED"}

\* the same, for chapters with a non-empty title and existing results in
\* which every three-field start_time is numeric
MergeTitledWellFormed ==
    fn_out # <<>> =>
        \A c \in ChapterIds :
            /\ ( /\ fn_in.toc[c] # 0
                 /\ \A k \in 1..Len(fn_in.data) : fn_in.data[k].start_time.kind # "bad" ) =>
                  /\ TimedEntries(fn_in.toc[c]) # {} =>
                        /\ StatusOf(c) = "FOUND"
                        /\ \E k \in TimedEntries(fn_in.toc[c]) : TimeOf(c) = EntrySeconds(k)
                  /\ TimedEntries(fn_in.toc[c]) = {} =>
                        /\ StatusOf(c) = "PENDING"
                        /\ TimeOf(c) = None
            /\ StatusOf(c) = "FOUND" => TimeOf(c) # None
            /\ StatusOf(c) \notin {"FAILED", "IGNORED"}

\* C36: when find_chapter_linear has returned, on a match, on exhaustion, or
\* on an extraction failure after at least one window was extracted,
\* temp_scan.wav does not exist.
C36_TempFileRemoved ==
    pc = "ret" =>
        /\ LastCall.result \in {"found", "exhausted"} => ~temp_exists
        /\ (LastCall.result = "extract_fail" /\ Len(windows) >= 1) => ~temp_exists

\* the same, for the returns on a match and on exhaustion
TempFileRemovedOnCleanup ==
    pc = "ret" /\ LastCall.result \in {"found", "exhausted"} => ~temp_exists

====
